---- MODULE Spec2Model ----
(***************************************************************************)
(* A model of dqn_zoo/parts.py: the interaction loop driver run_loop, the  *)
(* EpisodeTracker, the CsvWriter, the LinearSchedule and the               *)
(* EpsilonGreedyActor.  Each component has its own specification           *)
(* (SpecLoop, SpecTracker, SpecCsv, SpecSchedule, SpecActor) over the      *)
(* module's variables; a specification leaves the other components'        *)
(* variables at their constructed values.  SpecStats is generate_statistics*)
(* consuming the pairs run_loop yields.                                    *)
(*                                                                         *)
(* Python's None is modelled as the empty sequence and a present value x   *)
(* as the one-element sequence <<x>> (Optional[...] in the source's type   *)
(* annotations).                                                           *)
(***************************************************************************)
EXTENDS Integers, Sequences, FiniteSets, TLC

VARIABLES
  \* ---- run_loop: arguments, locals and position of the generator -------
  max_steps_per_episode,  \* argument
  yield_before_reset,     \* argument
  pc,                     \* the line the generator is at
  t,                      \* local t (unbound before line 65; never read then)
  timestep_t,             \* local timestep_t: a timestep record
  a_t,                    \* local a_t: Optional[Action]
  trace,                  \* history: the calls and yields of the current episode
  \* ---- EpisodeTracker: fields (self._x is written x) -------------------
  fields_bound,             \* FALSE while every field is None (lines 114-118)
  num_steps_since_reset,
  num_steps_over_episodes,
  episode_returns,
  current_episode_rewards,
  current_episode_step,
  fed,                      \* history: timesteps of the step calls that returned, since reset
  last_call,                \* history: the latest call on the tracker and how it ended
  stats,                    \* what the latest call on the tracker returned: get()'s dictionary, else None
  \* ---- CsvWriter: fields and the file it appends to --------------------
  file_lines,               \* the lines of the file self._file appends to
  file_closed,              \* self._file.closed
  fieldnames,               \* self._writer: None, or the DictWriter's fieldnames
  header_written,           \* self._header_written
  prior_len,                \* history: lines in the file when it was opened
  first_record,             \* history: the first record a write() of this instance wrote
  restored,                 \* history: the set_state calls so far (see CsvInit)
  csv_last,                 \* history: the latest call on the writer, how it ended, lines it appended
  \* ---- LinearSchedule ---------------------------------------------------
  schedule,                 \* None, or the fields of the constructed schedule
  sched_last,               \* history: the latest call on the schedule and how it ended
  \* ---- EpsilonGreedyActor: two instances built on the same network ------
  exploration_epsilon,      \* constructor argument, the same for both instances
  rng_key,                  \* self._rng_key of each instance
  action,                   \* self._action of each instance: Optional[Action]
  network_params,           \* self.network_params of each instance: None until set
  selected,                 \* history: the action each instance selected last since its reset
  actor_last,               \* history: the latest call on each instance and what it returned
  sync,                     \* history: how the two instances were last brought together
  \* ---- generate_statistics ----------------------------------------------
  gs_pc,                    \* where generate_statistics is ("idle": not called)
  rate_steps                \* step_rate_tracker._num_steps_since_reset

loopVars == <<max_steps_per_episode, yield_before_reset, pc, t, timestep_t, a_t, trace>>

\* The fields of an EpisodeTracker.
trackerFields == <<fields_bound, num_steps_since_reset, num_steps_over_episodes,
                   episode_returns, current_episode_rewards, current_episode_step>>

trackerVars == <<trackerFields, fed, last_call, stats>>

\* The fields of a CsvWriter.
csvFields == <<file_closed, fieldnames, header_written>>

csvVars == <<file_lines, csvFields, prior_len, first_record, restored, csv_last>>

schedVars == <<schedule, sched_last>>

\* The fields of an EpsilonGreedyActor.
actorFields == <<exploration_epsilon, rng_key, action, network_params>>

actorVars == <<actorFields, selected, actor_last, sync>>

gsVars == <<gs_pc, rate_steps>>

vars == <<loopVars, trackerVars, csvVars, schedVars, actorVars, gsVars>>

\* The step of run_loop being taken has yielded a pair.
Yielded ==
  /\ trace' # trace
  /\ trace' # <<>>
  /\ trace'[Len(trace')].op = "yield"

\* A generator runs only while its consumer asks for the next pair: a
\* step of run_loop is taken while generate_statistics is not the consumer
\* or waits at line 96, and a pair yielded to it takes it into the body of
\* its for loop.  run_loop touches nothing else.
LoopFrame ==
  /\ gs_pc \in {"idle", "next"}
  /\ gs_pc' = IF gs_pc = "next" /\ Yielded THEN "body" ELSE gs_pc
  /\ UNCHANGED <<rate_steps, trackerVars, csvVars, schedVars, actorVars>>

\* What a step of one component leaves alone: the other components.  A
\* call on the tracker leaves alone what is not the tracker; who calls it
\* says what becomes of generate_statistics.
TrackerFrame == UNCHANGED <<loopVars, csvVars, schedVars, actorVars>>
CsvFrame == UNCHANGED <<loopVars, trackerVars, schedVars, actorVars, gsVars>>
SchedFrame == UNCHANGED <<loopVars, trackerVars, csvVars, actorVars, gsVars>>
ActorFrame == UNCHANGED <<loopVars, trackerVars, csvVars, schedVars, gsVars>>

None == <<>>
Some(x) == <<x>>

(***************************************************************************)
(* Bounds.                                                                 *)
(***************************************************************************)
\* Longest episode explored: max_steps_per_episode ranges over 0..MaxT and an
\* untruncated episode (max_steps_per_episode = 0) is ended by the
\* environment at t = MaxT at the latest.
MaxT == 3

\* Rewards of the timesteps fed to an EpisodeTracker are 0..MaxReward.
MaxReward == 3

\* The most step calls that return, between two resets of an EpisodeTracker.
MaxFed == 4

\* The most lines one CsvWriter instance appends to its file.
MaxLines == 3

(***************************************************************************)
(* dm_env.TimeStep and dm_env.StepType, as far as parts.py reads them.     *)
(***************************************************************************)
StepType == {"FIRST", "MID", "LAST"}

\* The driver never reads reward, observation or discount: one
\* representative reward is carried so that _replace can be seen to keep it.
LoopTimeStep == [step_type : StepType, reward : {1}]

\* timestep._replace(step_type=dm_env.StepType.LAST)
ReplaceStepTypeLAST(ts) == [ts EXCEPT !.step_type = "LAST"]

\* timestep.last()
IsLast(ts) == ts.step_type = "LAST"

\* timestep.first()
IsFirst(ts) == ts.step_type = "FIRST"

\* Action = int
Action == {0, 1}

\* What agent.step may return: the agent is duck-typed, and the
\* repository's own EpsilonGreedyActor.step returns self._action, which is
\* None after reset() until an action has been selected.
AgentStepReturns == {None} \cup {Some(a) : a \in Action}

\* What environment.reset() and environment.step() may return.  A dm_env
\* environment returns FIRST from reset and MID or LAST from step; the
\* driver accepts any environment, so any step type is explored and the
\* properties that assume a dm_env environment say so.
EnvResetReturns == LoopTimeStep
EnvStepReturns == LoopTimeStep

(***************************************************************************)
(* History entries: one per call on the agent or the environment and one   *)
(* per yield.  ts is the timestep passed, returned or yielded, act the     *)
(* action passed, returned or yielded, at the value of t at that point.    *)
(***************************************************************************)
Entry(op, ts, act, time) == [op |-> op, ts |-> ts, act |-> act, t |-> time]

Append1(entry) == trace' = Append(trace, entry)

\* The timestep bound to timestep_t (bound from line 67 on).
Cur == timestep_t[1]

(***************************************************************************)
(* run_loop, lines 61-85.  One action per call, yield or test.             *)
(***************************************************************************)
\* Arguments of the call; the generator body has not started.
LoopInit ==
  /\ max_steps_per_episode \in 0..MaxT
  /\ yield_before_reset \in BOOLEAN
  /\ pc = "episode"
  /\ t = 0
  /\ timestep_t = None
  /\ a_t = None
  /\ trace = <<>>

\* A driver that yields the sentinel whatever yield_before_reset says.
SentinelPairs_always == <<Entry("yield", None, None, t)>>

\* Lines 62-63: if yield_before_reset: yield None, None
SentinelPairs ==
  IF yield_before_reset THEN <<Entry("yield", None, None, t)>> ELSE <<>>

\* Lines 61-63: top of the episode loop.  The history starts afresh with
\* what is yielded before the resets.
EpisodeTop ==
  /\ pc = "episode"
  /\ trace' = SentinelPairs
  /\ pc' = "agent_reset"
  /\ UNCHANGED <<max_steps_per_episode, yield_before_reset, t, timestep_t, a_t>>
  /\ LoopFrame

\* Lines 65-66: t = 0; agent.reset()
AgentReset ==
  /\ pc = "agent_reset"
  /\ t' = 0
  /\ Append1(Entry("agent.reset", None, None, 0))
  /\ pc' = "env_reset"
  /\ UNCHANGED <<max_steps_per_episode, yield_before_reset, timestep_t, a_t>>
  /\ LoopFrame

\* Line 67: timestep_t = environment.reset()
EnvReset ==
  /\ pc = "env_reset"
  /\ \E ts \in EnvResetReturns :
       /\ timestep_t' = Some(ts)
       /\ Append1(Entry("env.reset", Some(ts), None, t))
  /\ pc' = "agent_step"
  /\ UNCHANGED <<max_steps_per_episode, yield_before_reset, t, a_t>>
  /\ LoopFrame

\* Line 70: a_t = agent.step(timestep_t)
AgentStep ==
  /\ pc = "agent_step"
  /\ \E a \in AgentStepReturns :
       /\ a_t' = a
       /\ Append1(Entry("agent.step", timestep_t, a, t))
  /\ pc' = "yield"
  /\ UNCHANGED <<max_steps_per_episode, yield_before_reset, t, timestep_t>>
  /\ LoopFrame

\* Line 71: yield timestep_t, a_t
YieldPair ==
  /\ pc = "yield"
  /\ Append1(Entry("yield", timestep_t, a_t, t))
  /\ pc' = "env_step"
  /\ UNCHANGED <<max_steps_per_episode, yield_before_reset, t, timestep_t, a_t>>
  /\ LoopFrame

\* The timesteps environment.step may return at the new time.  An episode
\* that the driver does not truncate is ended by the environment at MaxT.
EnvStepChoices(time) ==
  IF max_steps_per_episode = 0 /\ time >= MaxT
    THEN {ts \in EnvStepReturns : IsLast(ts)}
    ELSE EnvStepReturns

\* Lines 74-76: t += 1; a_tm1 = a_t; timestep_t = environment.step(a_tm1)
EnvStep ==
  /\ pc = "env_step"
  /\ t' = t + 1
  /\ \E ts \in EnvStepChoices(t + 1) :
       /\ timestep_t' = Some(ts)
       /\ Append1(Entry("env.step", Some(ts), a_t, t + 1))
  /\ pc' = "truncate"
  /\ UNCHANGED <<max_steps_per_episode, yield_before_reset, a_t>>
  /\ LoopFrame

\* A driver that never truncates.
TruncationDue_never == FALSE

\* A driver that truncates one step late.
TruncationDue_late == max_steps_per_episode > 0 /\ t > max_steps_per_episode

\* Line 78: max_steps_per_episode > 0 and t >= max_steps_per_episode
TruncationDue == max_steps_per_episode > 0 /\ t >= max_steps_per_episode

\* A driver that goes on stepping after a LAST timestep.
AfterStep_neverEnds(ts) == "agent_step"

\* A driver that ends the episode without the extra agent step of line 83.
AfterStep_noFinalStep(ts) == IF IsLast(ts) THEN "yield_last" ELSE "agent_step"

\* Lines 82-85 against the fall-through to line 70: where the loop goes on.
AfterStep(ts) == IF IsLast(ts) THEN "final_agent_step" ELSE "agent_step"

\* A driver that yields the previous action with the last timestep.
LastPairAction_stale == a_t

\* Line 84: the action slot of the pair that ends the episode.
LastPairAction == None

\* Lines 78-82: the truncation test with its assertion and relabelling,
\* then the test timestep_t.last() that selects the branch.
Truncate ==
  /\ pc = "truncate"
  /\ IF TruncationDue /\ t # max_steps_per_episode
       THEN /\ pc' = "AssertionError"
            /\ UNCHANGED timestep_t
       ELSE LET ts == IF TruncationDue THEN ReplaceStepTypeLAST(Cur) ELSE Cur IN
            /\ timestep_t' = Some(ts)
            /\ pc' = AfterStep(ts)
  /\ UNCHANGED <<max_steps_per_episode, yield_before_reset, t, a_t, trace>>
  /\ LoopFrame

\* Line 83: unused_a_t = agent.step(timestep_t); a_t keeps its value.
FinalAgentStep ==
  /\ pc = "final_agent_step"
  /\ \E a \in AgentStepReturns :
       Append1(Entry("agent.step", timestep_t, a, t))
  /\ pc' = "yield_last"
  /\ UNCHANGED <<max_steps_per_episode, yield_before_reset, t, timestep_t, a_t>>
  /\ LoopFrame

\* Lines 84-85: yield timestep_t, None; break
YieldLast ==
  /\ pc = "yield_last"
  /\ Append1(Entry("yield", timestep_t, LastPairAction, t))
  /\ pc' = "episode"
  /\ UNCHANGED <<max_steps_per_episode, yield_before_reset, t, timestep_t, a_t>>
  /\ LoopFrame

LoopNext ==
  \/ EpisodeTop
  \/ AgentReset
  \/ EnvReset
  \/ AgentStep
  \/ YieldPair
  \/ EnvStep
  \/ Truncate
  \/ FinalAgentStep
  \/ YieldLast

(***************************************************************************)
(* EpisodeTracker, lines 110-179.                                          *)
(***************************************************************************)
Rewards == 0..MaxReward

\* The timesteps fed to the tracker.  The reward of a FIRST timestep is
\* None in dm_env and is never read (line 128); it is carried as 0.
TrackerTimeStep ==
  {[step_type |-> "FIRST", reward |-> 0]}
    \cup [step_type : {"MID", "LAST"}, reward : Rewards]

\* sum(...) of a list of numbers.
RECURSIVE Sum(_)
Sum(xs) == IF xs = <<>> THEN 0 ELSE xs[1] + Sum(Tail(xs))

RECURSIVE Gcd(_, _)
Gcd(a, b) == IF b = 0 THEN a ELSE Gcd(b, a % b)

\* np.nan
NaN == [nan |-> TRUE, num |-> 0, den |-> 1]

\* The number n / d (d > 0), in lowest terms.
Frac(n, d) ==
  LET g == Gcd(IF n < 0 THEN -n ELSE n, d) IN
  [nan |-> FALSE, num |-> n \div g, den |-> d \div g]

\* np.array(xs).mean() of a non-empty list.
Mean(xs) == Frac(Sum(xs), Len(xs))

\* Lines 113-118: __init__ sets every field to None.
TrackerInit ==
  /\ fields_bound = FALSE
  /\ num_steps_since_reset = 0
  /\ num_steps_over_episodes = 0
  /\ episode_returns = <<>>
  /\ current_episode_rewards = <<>>
  /\ current_episode_step = 0
  /\ fed = <<>>
  /\ last_call = [op |-> "__init__", ts |-> None, result |-> "ok"]
  /\ stats = None

\* A tracker whose check of a FIRST timestep forgets the step count.
StepError_rewardsOnly(ts) ==
  IF ~fields_bound
    THEN IF IsFirst(ts) THEN "ValueError" ELSE "AttributeError"
    ELSE IF IsFirst(ts) /\ current_episode_rewards # <<>>
      THEN "ValueError"
      ELSE "ok"

\* Lines 122-129: the error step raises before it changes anything, "ok" if
\* none.  On fields that are still None, `if None` is false and `None != 0`
\* is true (ValueError, line 126); None.append is an AttributeError.
StepError(ts) ==
  IF ~fields_bound
    THEN IF IsFirst(ts) THEN "ValueError" ELSE "AttributeError"
    ELSE IF IsFirst(ts) /\ current_episode_rewards # <<>>
      THEN "ValueError"
      ELSE IF IsFirst(ts) /\ current_episode_step # 0
        THEN "ValueError"
        ELSE "ok"

\* Lines 127-129: the in-progress rewards after the timestep's reward.
RewardsWith(ts) ==
  IF IsFirst(ts)
    THEN current_episode_rewards
    ELSE Append(current_episode_rewards, ts.reward)

\* A tracker that keeps the in-progress rewards over the end of an episode.
RewardsAfter_kept(ts) == RewardsWith(ts)

\* Line 136: the in-progress rewards when step returns.
RewardsAfter(ts) == IF IsLast(ts) THEN <<>> ELSE RewardsWith(ts)

\* A tracker that adds the episode's steps before it counts the last one.
StepsOverEpisodesAfter_stale(ts) ==
  IF IsLast(ts)
    THEN num_steps_over_episodes + current_episode_step
    ELSE num_steps_over_episodes

\* Lines 132, 137: the steps of the completed episodes when step returns.
StepsOverEpisodesAfter(ts) ==
  IF IsLast(ts)
    THEN num_steps_over_episodes + (current_episode_step + 1)
    ELSE num_steps_over_episodes

\* A tracker that keeps counting the episode's steps over its end.
EpisodeStepAfter_kept(ts) == current_episode_step + 1

\* Lines 132, 138: the in-progress step count when step returns.
EpisodeStepAfter(ts) == IF IsLast(ts) THEN 0 ELSE current_episode_step + 1

\* Lines 120-138: EpisodeTracker.step(timestep) on the timestep ts.
TrackerStepOn(ts) ==
  LET err == StepError(ts) IN
  /\ last_call' = [op |-> "step", ts |-> Some(ts), result |-> err]
  /\ IF err # "ok"
       THEN UNCHANGED <<trackerFields, fed>>
       ELSE /\ Len(fed) < MaxFed
            /\ fed' = Append(fed, ts)
            /\ num_steps_since_reset' = num_steps_since_reset + 1
            /\ current_episode_rewards' = RewardsAfter(ts)
            /\ episode_returns' =
                 IF IsLast(ts)
                   THEN Append(episode_returns, Sum(RewardsWith(ts)))
                   ELSE episode_returns
            /\ num_steps_over_episodes' = StepsOverEpisodesAfter(ts)
            /\ current_episode_step' = EpisodeStepAfter(ts)
            /\ UNCHANGED fields_bound
  /\ stats' = None
  /\ TrackerFrame

\* Lines 120-138: EpisodeTracker.step(timestep), called on its own.
TrackerStep ==
  /\ \E ts \in TrackerTimeStep : TrackerStepOn(ts)
  /\ UNCHANGED gsVars

\* Lines 140-146: EpisodeTracker.reset()
TrackerResetCall ==
  /\ fields_bound' = TRUE
  /\ num_steps_since_reset' = 0
  /\ num_steps_over_episodes' = 0
  /\ episode_returns' = <<>>
  /\ current_episode_step' = 0
  /\ current_episode_rewards' = <<>>
  /\ fed' = <<>>
  /\ last_call' = [op |-> "reset", ts |-> None, result |-> "ok"]
  /\ stats' = None
  /\ TrackerFrame

\* Lines 140-146: EpisodeTracker.reset(), called on its own.
TrackerReset == TrackerResetCall /\ UNCHANGED gsVars

\* Lines 161, 165-168: current_episode_return
CurrentEpisodeReturn ==
  IF episode_returns # <<>>
    THEN Frac(Sum(current_episode_rewards), 1)
    ELSE IF num_steps_since_reset > 0
      THEN Frac(Sum(current_episode_rewards), 1)
      ELSE NaN

\* A tracker that always reports the in-progress return.
EpisodeReturn_current == CurrentEpisodeReturn

\* Lines 162, 169: episode_return
EpisodeReturn ==
  IF episode_returns # <<>> THEN Mean(episode_returns) ELSE CurrentEpisodeReturn

\* Lines 159-179: the dictionary get() builds.
Stats ==
  [mean_episode_return |->
     IF episode_returns # <<>> THEN Mean(episode_returns) ELSE NaN,
   current_episode_return |-> CurrentEpisodeReturn,
   episode_return |-> EpisodeReturn,
   num_episodes |-> Len(episode_returns),
   num_steps_over_episodes |-> num_steps_over_episodes,
   current_episode_step |-> current_episode_step,
   num_steps_since_reset |-> num_steps_since_reset]

\* Lines 148-179: EpisodeTracker.get().  On fields that are still None the
\* comparison `None > 0` of line 165 is a TypeError.
TrackerGetCall ==
  /\ IF fields_bound
       THEN /\ stats' = Some(Stats)
            /\ last_call' = [op |-> "get", ts |-> None, result |-> "ok"]
       ELSE /\ stats' = None
            /\ last_call' = [op |-> "get", ts |-> None, result |-> "TypeError"]
  /\ UNCHANGED <<trackerFields, fed>>
  /\ TrackerFrame

\* Lines 148-179: EpisodeTracker.get(), called on its own.
TrackerGet == TrackerGetCall /\ UNCHANGED gsVars

TrackerNext ==
  \/ TrackerStep
  \/ TrackerReset
  \/ TrackerGet

(***************************************************************************)
(* generate_statistics, lines 88-107, on the pairs of a run_loop           *)
(* generator.  The generator may have yielded pairs to earlier consumers   *)
(* (itertools.islice of the same generator); the pairs generate_statistics *)
(* gets are a contiguous slice of its output.  Of the StepRateTracker      *)
(* (lines 182-207) only the step count is carried; its clock is not.       *)
(***************************************************************************)
\* generate_statistics has not been called.
GsIdle ==
  /\ gs_pc = "idle"
  /\ rate_steps = 0

\* The generator has not started, or it is suspended at one of its yields
\* (line 63, 71 or 84).
Suspended ==
  \/ pc \in {"episode", "env_step"}
  \/ pc = "agent_reset" /\ yield_before_reset

\* Lines 91-94: both trackers are constructed and reset.
GsStart ==
  /\ gs_pc = "idle"
  /\ Suspended
  /\ ~fields_bound
  /\ TrackerResetCall
  /\ rate_steps' = 0
  /\ gs_pc' = "next"

\* A consumer that feeds the tracker the sentinel pairs as well: the
\* timestep None stands for a FIRST one.
FedTimestep_sentinelToo(e) ==
  IF e.ts = None THEN Some([step_type |-> "FIRST", reward |-> 0]) ELSE e.ts

\* Lines 97-98: the timestep of a pair that is fed to the trackers; None
\* for a pair the loop skips.
FedTimestep(e) == e.ts

\* Lines 96-101: the body of the for loop on the pair just yielded.  An
\* error of episode_tracker.step leaves generate_statistics.
GsBody ==
  /\ gs_pc = "body"
  /\ LET ts == FedTimestep(trace[Len(trace)]) IN
     IF ts = None
       THEN /\ gs_pc' = "next"
            /\ UNCHANGED <<rate_steps, trackerVars>>
            /\ TrackerFrame
       ELSE /\ rate_steps' = rate_steps + 1
            /\ TrackerStepOn(ts[1])
            /\ gs_pc' = IF StepError(ts[1]) = "ok" THEN "next" ELSE "error"

\* Lines 103-107: the slice has ended; the statistics are returned.
GsFinish ==
  /\ gs_pc = "next"
  /\ TrackerGetCall
  /\ gs_pc' = "done"
  /\ UNCHANGED rate_steps

StatsNext ==
  \/ LoopNext
  \/ GsStart
  \/ GsBody
  \/ GsFinish

(***************************************************************************)
(* CsvWriter, lines 304-350, with csv.DictWriter as the standard library   *)
(* defines it (restval = '', extrasaction = 'raise').                      *)
(***************************************************************************)
\* The records written: every ordered selection of the items a: 1 and b: 2
\* (an OrderedDict is its key/value pairs in insertion order, no key twice).
Item == {[key |-> "a", value |-> 1], [key |-> "b", value |-> 2]}
Records ==
  {<<>>} \cup {<<p>> : p \in Item}
         \cup {pq \in Item \X Item : pq[1].key # pq[2].key}

\* values.keys(), in order.
KeysOf(rec) == [i \in 1..Len(rec) |-> rec[i].key]

KeySet(rec) == {rec[i].key : i \in 1..Len(rec)}

\* str(v) of a small non-negative integer.
Str(v) == <<"0", "1", "2", "3", "4", "5", "6", "7", "8", "9">>[v + 1]

\* rowdict.get(key, self.restval) as the csv writer prints it: the value's
\* str, or the empty string for a key the record lacks.
Cell(rec, k) ==
  IF k \in KeySet(rec)
    THEN Str((CHOOSE p \in {rec[i] : i \in 1..Len(rec)} : p.key = k).value)
    ELSE ""

\* DictWriter._dict_to_list: the keys of the record that are no fieldnames.
WrongFields(rec, names) == KeySet(rec) \ {names[i] : i \in 1..Len(names)}

\* DictWriter.writeheader: the line of the column names.
HeaderLine(names) == [kind |-> "header", cells |-> names]

\* DictWriter.writerow: the line of the record's cells in column order.
RowLine(rec, names) ==
  [kind |-> "row", cells |-> [i \in 1..Len(names) |-> Cell(rec, names[i])]]

\* What the file may hold when it is opened in append mode: nothing, or the
\* header and a row of an earlier run.
PriorContents ==
  {<<>>,
   <<HeaderLine(<<"a", "b">>),
     [kind |-> "row", cells |-> <<"1", "2">>]>>}

\* Lines 312-322: __init__ opens the file in append mode.  `restored` is
\* "no" while set_state has not been called, "true_fresh" while every
\* set_state call so far passed header_written = True and the first came
\* before any write, and "other" otherwise.
CsvInit ==
  /\ file_lines \in PriorContents
  /\ prior_len = Len(file_lines)
  /\ file_closed = FALSE
  /\ fieldnames = None
  /\ header_written = FALSE
  /\ first_record = None
  /\ restored = "no"
  /\ csv_last = [op |-> "__init__", values |-> <<>>, result |-> "ok", appended |-> <<>>]

\* The instance is gone once __del__ has run.
Alive == csv_last.op # "__del__"

\* A writer that builds a new DictWriter from every record.
FieldnamesFor_latest(rec) == KeysOf(rec)

\* Line 328: the fieldnames of the DictWriter after the test of line 327.
FieldnamesFor(rec) == IF fieldnames = None THEN KeysOf(rec) ELSE fieldnames[1]

\* A writer that writes the header in every write.
NeedsHeader_always == TRUE

\* Line 330: if not self._header_written
NeedsHeader == ~header_written

\* A writer whose file accepts lines after close().
FileWritable_always == TRUE

\* A write to the file raises ValueError once the file is closed.
FileWritable == ~file_closed

ErrClosed == "ValueError: I/O operation on closed file"
ErrFields == "ValueError: dict contains fields not in fieldnames"

\* Lines 324-334: CsvWriter.write(values).  The DictWriter is created
\* first, the header is written and marked next, then the row is checked
\* and written; an error leaves what was done before it.
CsvWrite ==
  /\ Alive
  /\ \E rec \in Records :
       LET names == FieldnamesFor(rec)
           headerFails == NeedsHeader /\ ~FileWritable
           header == IF NeedsHeader /\ FileWritable
                       THEN <<HeaderLine(names)>> ELSE <<>>
           rowFails == WrongFields(rec, names) # {} \/ ~FileWritable
           row == IF headerFails \/ rowFails
                    THEN <<>> ELSE <<RowLine(rec, names)>>
           result == IF headerFails THEN ErrClosed
                     ELSE IF WrongFields(rec, names) # {} THEN ErrFields
                     ELSE IF ~FileWritable THEN ErrClosed
                     ELSE "ok"
       IN
       /\ (Len(file_lines) - prior_len) + Len(header) + Len(row) <= MaxLines
       /\ fieldnames' = Some(names)
       /\ header_written' = (header_written \/ header # <<>>)
       /\ file_lines' = file_lines \o header \o row
       /\ first_record' =
            IF first_record = None /\ result = "ok" THEN Some(rec) ELSE first_record
       /\ csv_last' = [op |-> "write", values |-> rec, result |-> result,
                       appended |-> header \o row]
  /\ UNCHANGED <<file_closed, prior_len, restored>>
  /\ CsvFrame

\* Lines 336-338: CsvWriter.close(); closing a closed file does nothing.
CsvClose ==
  /\ Alive
  /\ file_closed' = TRUE
  /\ csv_last' = [op |-> "close", values |-> <<>>, result |-> "ok", appended |-> <<>>]
  /\ UNCHANGED <<file_lines, fieldnames, header_written, prior_len, first_record, restored>>
  /\ CsvFrame

\* Lines 340-342: CsvWriter.__del__() calls close().
CsvDel ==
  /\ Alive
  /\ file_closed' = TRUE
  /\ csv_last' = [op |-> "__del__", values |-> <<>>, result |-> "ok", appended |-> <<>>]
  /\ UNCHANGED <<file_lines, fieldnames, header_written, prior_len, first_record, restored>>
  /\ CsvFrame

\* Lines 344-346: CsvWriter.get_state()
CsvGetState ==
  /\ Alive
  /\ csv_last' = [op |-> "get_state", values |-> <<>>, result |-> "ok", appended |-> <<>>]
  /\ UNCHANGED <<file_lines, csvFields, prior_len, first_record, restored>>
  /\ CsvFrame

\* Lines 348-350: CsvWriter.set_state(state), state['header_written'] a bool.
CsvSetState ==
  /\ Alive
  /\ \E flag \in BOOLEAN :
       /\ header_written' = flag
       /\ restored' =
            IF flag /\ (restored = "true_fresh"
                          \/ (restored = "no" /\ fieldnames = None))
              THEN "true_fresh" ELSE "other"
  /\ csv_last' = [op |-> "set_state", values |-> <<>>, result |-> "ok", appended |-> <<>>]
  /\ UNCHANGED <<file_lines, file_closed, fieldnames, prior_len, first_record>>
  /\ CsvFrame

CsvNext ==
  \/ CsvWrite
  \/ CsvClose
  \/ CsvDel
  \/ CsvGetState
  \/ CsvSetState

(***************************************************************************)
(* LinearSchedule (lines 272-291).  Values are exact rationals, so the     *)
(* model says nothing about floating-point rounding.                       *)
(***************************************************************************)
\* The decay lengths and times tried lie within MaxDecay of zero.
MaxDecay == 2

\* begin_value and end_value range over 0..MaxValue.
MaxValue == 2

SchedValues == 0..MaxValue
BeginTs == 0..1
DecaySteps == (0 - MaxDecay)..MaxDecay
EndTs == (0 - MaxDecay)..(MaxDecay + 1)
CallTs == (0 - MaxDecay)..(MaxDecay + 2)

\* Python's min and max of two integers.
Min(x, y) == IF x <= y THEN x ELSE y
Max(x, y) == IF x >= y THEN x ELSE y

\* The number n / d (d # 0), in lowest terms with a positive denominator.
Rat(n, d) == IF d < 0 THEN Frac(0 - n, 0 - d) ELSE Frac(n, d)
RInt(n) == Rat(n, 1)
RAdd(x, y) == Rat(x.num * y.den + y.num * x.den, x.den * y.den)
RSub(x, y) == Rat(x.num * y.den - y.num * x.den, x.den * y.den)
RMul(x, y) == Rat(x.num * y.num, x.den * y.den)

\* No LinearSchedule has been constructed.
SchedInit ==
  /\ schedule = None
  /\ sched_last = [op |-> "none", args |-> <<>>, error |-> "none", value |-> None]

\* A constructor that rejects only the call that gives neither argument.
InvalidArgs_neitherOnly(end_t, decay_steps) == end_t = None /\ decay_steps = None

\* Line 281: if (end_t is None) == (decay_steps is None)
InvalidArgs(end_t, decay_steps) == (end_t = None) = (decay_steps = None)

\* Line 283: decay_steps if end_t is None else end_t - begin_t
DecayStepsFor(begin_t, end_t, decay_steps) ==
  IF end_t = None THEN decay_steps[1] ELSE end_t[1] - begin_t

\* Lines 275-286: LinearSchedule(begin_value, end_value, begin_t, end_t,
\* decay_steps); end_t and decay_steps are optional.
SchedConstruct ==
  /\ schedule = None
  /\ \E begin_value \in SchedValues, end_value \in SchedValues, begin_t \in BeginTs,
        end_t \in {None} \cup {Some(e) : e \in EndTs},
        decay_steps \in {None} \cup {Some(d) : d \in DecaySteps} :
       LET args == <<begin_value, end_value, begin_t, end_t, decay_steps>> IN
       IF InvalidArgs(end_t, decay_steps)
         THEN /\ schedule' = None
              /\ sched_last' = [op |-> "__init__", args |-> args,
                                error |-> "ValueError", value |-> None]
         ELSE /\ schedule' = Some([begin_value |-> begin_value,
                                    end_value |-> end_value,
                                    begin_t |-> begin_t,
                                    decay_steps |-> DecayStepsFor(begin_t, end_t, decay_steps)])
              /\ sched_last' = [op |-> "__init__", args |-> args,
                                error |-> "none", value |-> None]
  /\ SchedFrame

\* A schedule that does not hold t - begin_t at zero from below.
ClampedSteps_noFloor(sch, time) == Min(time - sch.begin_t, sch.decay_steps)

\* Line 290: min(max(t - self._begin_t, 0), self._decay_steps)
ClampedSteps(sch, time) == Min(Max(time - sch.begin_t, 0), sch.decay_steps)

\* Lines 290-291: the value returned for a non-zero decay length.
ScheduleValue(sch, time) ==
  LET frac == Rat(ClampedSteps(sch, time), sch.decay_steps) IN
  RAdd(RMul(RSub(RInt(1), frac), RInt(sch.begin_value)),
       RMul(frac, RInt(sch.end_value)))

\* Lines 288-291: __call__(t); the division of line 290 raises for a
\* decay length of zero.
SchedCall ==
  /\ schedule # None
  /\ \E time \in CallTs :
       sched_last' =
         IF schedule[1].decay_steps = 0
           THEN [op |-> "__call__", args |-> <<time>>,
                 error |-> "ZeroDivisionError", value |-> None]
           ELSE [op |-> "__call__", args |-> <<time>>,
                 error |-> "none", value |-> Some(ScheduleValue(schedule[1], time))]
  /\ UNCHANGED schedule
  /\ SchedFrame

SchedNext ==
  \/ SchedConstruct
  \/ SchedCall

(***************************************************************************)
(* EpsilonGreedyActor (lines 210-269): two instances, "A" and "B", built   *)
(* with the same network and exploration_epsilon.  The preprocessor is     *)
(* external: what it returns for a timestep (an observation, or None) is   *)
(* an input of step.  jax.random.split, network.apply and the              *)
(* epsilon-greedy sampler are external pure functions; fixed functions on  *)
(* small domains stand for them.                                           *)
(***************************************************************************)
\* Random keys are 0..NumKeys-1.
NumKeys == 4

Actors == {"A", "B"}
Other(i) == IF i = "A" THEN "B" ELSE "A"
Keys == 0..(NumKeys - 1)
Params == {0, 1}
Observations == {0, 1}

\* exploration_epsilon in halves: 0, 1/2, 1.
Epsilons == {0, 1, 2}

\* What the preprocessor returns: None, or a timestep with an observation.
PreprocessorReturns == {None} \cup {Some(o) : o \in Observations}

\* Line 231: jax.random.split(rng_key, 3)
Split(k) == <<(k + 1) % NumKeys, (k + 2) % NumKeys, (k + 3) % NumKeys>>

\* Line 232: network.apply(network_params, apply_key, s_t[None, ...]).q_values[0]
QValues(params, apply_key, s_t) ==
  <<(params + s_t) % 2, (s_t + apply_key) % 2>>

\* Line 233: rlax.epsilon_greedy().sample(policy_key, q_t, exploration_epsilon):
\* a uniform action when the key explores, else the highest q-value, a tie
\* broken by the key.
EpsilonGreedySample(policy_key, q_t, eps) ==
  IF policy_key % 2 < eps \/ q_t[1] = q_t[2]
    THEN (policy_key \div 2) % 2
    ELSE IF q_t[1] > q_t[2] THEN 0 ELSE 1

\* Lines 229-234: policy(rng_key, network_params, s_t), as <<rng_key, a_t>>.
Policy(k, params, s_t) ==
  LET keys == Split(k) IN
  <<keys[1], EpsilonGreedySample(keys[3], QValues(params, keys[2], s_t),
                                 exploration_epsilon)>>

NoCall == [op |-> "__init__", out |-> None, key |-> 0, ret |-> None, error |-> FALSE]

\* Lines 217-236: __init__ of both instances; the keys may differ.
ActorInit ==
  /\ exploration_epsilon \in Epsilons
  /\ rng_key \in [Actors -> Keys]
  /\ action = [i \in Actors |-> None]
  /\ network_params = [i \in Actors |-> None]
  /\ selected = [i \in Actors |-> None]
  /\ actor_last = [i \in Actors |-> NoCall]
  /\ sync = "no"

\* Line 227: network_params is set externally.
ActorSetParams ==
  /\ \E i \in Actors, p \in Params :
       /\ network_params' = [network_params EXCEPT ![i] = Some(p)]
       /\ actor_last' = [actor_last EXCEPT ![i] = [NoCall EXCEPT !.op = "set_params"]]
  /\ sync' = "no"
  /\ UNCHANGED <<exploration_epsilon, rng_key, action, selected>>
  /\ ActorFrame

\* An actor whose no-output step returns no action.
RepeatedAction_none(i) == None

\* Lines 242-243: the action a step returns when the preprocessor returned None.
RepeatedAction(i) == action[i]

\* Lines 238-248: what step() on instance i does when the preprocessor
\* returns `out`: the new key, the new stored action, the returned action.
\* network.apply fails while network_params is None; nothing is assigned then.
StepOutcome(i, out) ==
  IF out = None
    THEN [key |-> rng_key[i], action |-> action[i], selected |-> selected[i],
          ret |-> RepeatedAction(i), error |-> FALSE]
  ELSE IF network_params[i] = None
    THEN [key |-> rng_key[i], action |-> action[i], selected |-> selected[i],
          ret |-> None, error |-> TRUE]
  ELSE LET r == Policy(rng_key[i], network_params[i][1], out[1]) IN
       [key |-> r[1], action |-> Some(r[2]), selected |-> Some(r[2]),
        ret |-> Some(r[2]), error |-> FALSE]

StepCall(i, out) ==
  [op |-> "step", out |-> out, key |-> rng_key[i],
   ret |-> StepOutcome(i, out).ret, error |-> StepOutcome(i, out).error]

\* Lines 238-248: step(timestep) on one instance.
ActorStep ==
  /\ \E i \in Actors, out \in PreprocessorReturns :
       /\ rng_key' = [rng_key EXCEPT ![i] = StepOutcome(i, out).key]
       /\ action' = [action EXCEPT ![i] = StepOutcome(i, out).action]
       /\ selected' = [selected EXCEPT ![i] = StepOutcome(i, out).selected]
       /\ actor_last' = [actor_last EXCEPT ![i] = StepCall(i, out)]
  /\ sync' = "no"
  /\ UNCHANGED <<exploration_epsilon, network_params>>
  /\ ActorFrame

\* Both instances step on timesteps for which their preprocessors return
\* the same.
ActorStepBoth ==
  /\ sync # "no"
  /\ \E out \in PreprocessorReturns :
       /\ rng_key' = [i \in Actors |-> StepOutcome(i, out).key]
       /\ action' = [i \in Actors |-> StepOutcome(i, out).action]
       /\ selected' = [i \in Actors |-> StepOutcome(i, out).selected]
       /\ actor_last' = [i \in Actors |-> StepCall(i, out)]
  /\ sync' = IF sync \in {"reset", "reset_stepped"}
               THEN "reset_stepped" ELSE "restored_stepped"
  /\ UNCHANGED <<exploration_epsilon, network_params>>
  /\ ActorFrame

\* An actor whose reset keeps the stored action.
StoredAfterReset_kept(i) == action[i]

\* Line 256: self._action = None
StoredAfterReset(i) == None

\* Lines 250-256: reset() on one instance.
ActorReset ==
  /\ \E i \in Actors :
       /\ action' = [action EXCEPT ![i] = StoredAfterReset(i)]
       /\ selected' = [selected EXCEPT ![i] = None]
       /\ actor_last' = [actor_last EXCEPT ![i] = [NoCall EXCEPT !.op = "reset"]]
  /\ sync' = "no"
  /\ UNCHANGED <<exploration_epsilon, rng_key, network_params>>
  /\ ActorFrame

\* reset() on both instances while they hold the same key and the same
\* network parameters.
ActorResetBoth ==
  /\ rng_key["A"] = rng_key["B"]
  /\ network_params["A"] = network_params["B"]
  /\ action' = [i \in Actors |-> StoredAfterReset(i)]
  /\ selected' = [i \in Actors |-> None]
  /\ actor_last' = [i \in Actors |-> [NoCall EXCEPT !.op = "reset"]]
  /\ sync' = "reset"
  /\ UNCHANGED <<exploration_epsilon, rng_key, network_params>>
  /\ ActorFrame

\* Lines 258-264: get_state()
GetState(i) == [rng_key |-> rng_key[i], network_params |-> network_params[i]]

\* Lines 266-269 after 258-264: j.set_state(i.get_state()) at any point of
\* i's run.
ActorRestore ==
  /\ \E i \in Actors :
       LET j == Other(i)
           state == GetState(i)
       IN /\ rng_key' = [rng_key EXCEPT ![j] = state.rng_key]
          /\ network_params' = [network_params EXCEPT ![j] = state.network_params]
          /\ actor_last' = [actor_last EXCEPT ![j] = [NoCall EXCEPT !.op = "set_state"]]
  /\ sync' = "restored"
  /\ UNCHANGED <<exploration_epsilon, action, selected>>
  /\ ActorFrame

ActorNext ==
  \/ ActorSetParams
  \/ ActorStep
  \/ ActorStepBoth
  \/ ActorReset
  \/ ActorResetBoth
  \/ ActorRestore

(***************************************************************************)
(* Specifications: one per component, the others left as constructed.      *)
(***************************************************************************)
\* run_loop has not been called.
LoopIdle ==
  /\ max_steps_per_episode = 0
  /\ yield_before_reset = FALSE
  /\ pc = "episode"
  /\ t = 0
  /\ timestep_t = None
  /\ a_t = None
  /\ trace = <<>>

\* A CsvWriter on an empty file, never used.
CsvIdle == CsvInit /\ file_lines = <<>>

\* Two actors just constructed, with epsilon 0 and key 0.
ActorIdle ==
  /\ ActorInit
  /\ exploration_epsilon = 0
  /\ rng_key = [i \in Actors |-> 0]

InitLoop == LoopInit /\ TrackerInit /\ CsvIdle /\ SchedInit /\ ActorIdle /\ GsIdle

SpecLoop == InitLoop /\ [][LoopNext]_vars

InitTracker == LoopIdle /\ TrackerInit /\ CsvIdle /\ SchedInit /\ ActorIdle /\ GsIdle

SpecTracker == InitTracker /\ [][TrackerNext]_vars

InitCsv == LoopIdle /\ TrackerInit /\ CsvInit /\ SchedInit /\ ActorIdle /\ GsIdle

SpecCsv == InitCsv /\ [][CsvNext]_vars

InitSchedule == LoopIdle /\ TrackerInit /\ CsvIdle /\ SchedInit /\ ActorIdle /\ GsIdle

SpecSchedule == InitSchedule /\ [][SchedNext]_vars

InitActor == LoopIdle /\ TrackerInit /\ CsvIdle /\ SchedInit /\ ActorInit /\ GsIdle

SpecActor == InitActor /\ [][ActorNext]_vars

InitStats == LoopInit /\ TrackerInit /\ CsvIdle /\ SchedInit /\ ActorIdle /\ GsIdle

SpecStats == InitStats /\ [][StatsNext]_vars

(***************************************************************************)
(* Properties of run_loop.                                                 *)
(***************************************************************************)
TraceIdx == 1..Len(trace)

\* A yielded pair that carries a timestep.
IsPair(e) == e.op = "yield" /\ e.ts # None

\* The sentinel pair (None, None).
IsSentinel(e) == e.op = "yield" /\ e.ts = None /\ e.act = None

\* The number of entries among the first n of the history that satisfy P.
CountUpTo(n, P(_)) == Cardinality({j \in 1..n : P(trace[j])})

IsAgentStep(e) == e.op = "agent.step"
IsEnvTimestep(e) == e.op \in {"env.reset", "env.step"}

\* The environment of the current episode behaved as a dm_env environment:
\* reset returned FIRST and every step returned MID or LAST.
DmEnvSoFar ==
  \A i \in TraceIdx :
    /\ trace[i].op = "env.reset" => trace[i].ts[1].step_type = "FIRST"
    /\ trace[i].op = "env.step" => trace[i].ts[1].step_type \in {"MID", "LAST"}

\* environment.step has not returned LAST in the current episode.
EnvNeverLastSoFar ==
  \A i \in TraceIdx :
    trace[i].op = "env.step" => trace[i].ts[1].step_type # "LAST"

\* C1: with max_steps_per_episode = N > 0, the pair yielded at t = N carries
\* a LAST timestep whatever the environment reported, it is the pair that
\* ends the episode (nothing is called or yielded after it before the next
\* episode's resets), and if environment.step never returned LAST the
\* episode's terminal pair is the one at t = N, not an earlier one.
C1_TruncationEndsEpisode ==
  max_steps_per_episode > 0 =>
    \A i \in TraceIdx :
      LET e == trace[i] IN
      IsPair(e) =>
        /\ e.t = max_steps_per_episode =>
             /\ e.ts[1].step_type = "LAST"
             /\ e.act = None
             /\ i = Len(trace)
        /\ e.t > 0 /\ e.t < max_steps_per_episode /\ EnvNeverLastSoFar =>
             e.ts[1].step_type # "LAST"

\* An episode of a never-LAST environment that ended by truncation: the
\* environment reported MID at t = N and the driver yielded LAST.
C1_Witness ==
  /\ max_steps_per_episode = MaxT
  /\ pc = "episode"
  /\ Len(trace) > 2
  /\ EnvNeverLastSoFar
  /\ DmEnvSoFar
  /\ trace[Len(trace)].t = max_steps_per_episode
  /\ IsPair(trace[Len(trace)])
  /\ trace[Len(trace)].ts[1].step_type = "LAST"
  /\ trace[Len(trace) - 2].op = "env.step"
  /\ trace[Len(trace) - 2].ts[1].step_type = "MID"

\* C2: every yielded timestep was passed to agent.step exactly once, right
\* before its yield and after the environment produced it; at a yield with
\* counter t the episode has seen t + 1 environment timesteps and t + 1
\* agent steps; the action returned for a LAST timestep that environment.step
\* produced is not the one yielded.
C2_OneAgentStepPerYield ==
  \A i \in TraceIdx :
    LET e == trace[i] IN
    IsPair(e) =>
      /\ i > 2
      /\ IsAgentStep(trace[i - 1])
      /\ trace[i - 1].ts = e.ts
      /\ IsEnvTimestep(trace[i - 2])
      /\ CountUpTo(i, IsAgentStep) = e.t + 1
      /\ CountUpTo(i, IsEnvTimestep) = e.t + 1
      /\ (trace[i - 2].op = "env.step" /\ IsLast(e.ts[1])) => e.act = None

\* The pair of a LAST timestep has been yielded without an action although
\* the agent step on it returned one, in an episode of at least two steps.
C2_Witness ==
  /\ pc = "episode"
  /\ Len(trace) > 2
  /\ IsPair(trace[Len(trace)])
  /\ trace[Len(trace)].t >= 2
  /\ IsLast(trace[Len(trace)].ts[1])
  /\ IsAgentStep(trace[Len(trace) - 1])
  /\ trace[Len(trace) - 1].act # None
  /\ trace[Len(trace)].act = None

\* C3 as stated: for a dm_env environment every yield without a timestep is
\* the sentinel, and in a pair with a timestep the action is absent exactly
\* when the timestep is LAST.
C3_ActionAbsentIffLast ==
  DmEnvSoFar =>
    \A i \in TraceIdx :
      LET e == trace[i] IN
      e.op = "yield" =>
        /\ e.ts = None => (yield_before_reset /\ i = 1 /\ e.act = None)
        /\ e.ts # None => ((e.act = None) <=> IsLast(e.ts[1]))

\* C3 amended: for a dm_env environment every yield without a timestep is
\* the sentinel; in a pair with a timestep the action is absent whenever
\* the timestep is LAST, and for any other timestep it is what agent.step
\* returned for that timestep (absent only if agent.step returned None).
C3_ActionIsAgentReturnUnlessLast ==
  DmEnvSoFar =>
    \A i \in TraceIdx :
      LET e == trace[i] IN
      e.op = "yield" =>
        /\ e.ts = None => (yield_before_reset /\ i = 1 /\ e.act = None)
        /\ e.ts # None =>
             /\ IsLast(e.ts[1]) => e.act = None
             /\ ~IsLast(e.ts[1]) =>
                  /\ i > 1
                  /\ IsAgentStep(trace[i - 1])
                  /\ trace[i - 1].ts = e.ts
                  /\ e.act = trace[i - 1].act

\* A finished episode of a dm_env environment with a FIRST pair, a MID pair
\* carrying the agent's action, and the LAST pair.
C3_Witness ==
  /\ pc = "episode"
  /\ DmEnvSoFar
  /\ \E i, j \in TraceIdx :
       /\ i < j
       /\ IsPair(trace[i]) /\ IsFirst(trace[i].ts[1])
       /\ IsPair(trace[j]) /\ trace[j].ts[1].step_type = "MID"
       /\ trace[j].act # None
  /\ IsPair(trace[Len(trace)])
  /\ IsLast(trace[Len(trace)].ts[1])
  /\ trace[Len(trace)].act = None

\* C4: with yield_before_reset the history of every episode, the first
\* included, starts with exactly one sentinel, yielded before agent.reset()
\* and environment.reset(); the next yield is the timestep environment.reset
\* returned with the action agent.step returned for it.  Without
\* yield_before_reset no sentinel is yielded.
C4_SentinelBeforeEachEpisode ==
  /\ yield_before_reset =>
       /\ pc # "episode" => (Len(trace) >= 1 /\ IsSentinel(trace[1]))
       /\ \A i \in TraceIdx :
            /\ (trace[i].op = "yield" /\ trace[i].ts = None) => i = 1
            /\ trace[i].op = "agent.reset" => i = 2
            /\ trace[i].op = "env.reset" => i = 3
            /\ i = 5 =>
                 /\ trace[4].op = "agent.step"
                 /\ trace[5].op = "yield"
                 /\ trace[5].ts = trace[3].ts
                 /\ trace[5].act = trace[4].act
            /\ (IsPair(trace[i]) \/ IsAgentStep(trace[i])) => i > 3
  /\ ~yield_before_reset =>
       \A i \in TraceIdx : ~(trace[i].op = "yield" /\ trace[i].ts = None)

\* A second episode that has yielded its sentinel and then its first pair.
C4_Witness ==
  /\ yield_before_reset
  /\ timestep_t # None
  /\ Len(trace) = 5
  /\ trace[5].t = 0
  /\ IsSentinel(trace[1])
  /\ IsPair(trace[5])
  /\ trace[5].act # None

(***************************************************************************)
(* Properties of EpisodeTracker, stated against the history of the         *)
(* timesteps fed since reset.                                              *)
(***************************************************************************)
\* The positions of the LAST timesteps of a log.
LastPositions(log) == {i \in 1..Len(log) : IsLast(log[i])}

\* The position of the latest LAST timestep of a log, 0 if there is none.
LatestLast(log) ==
  IF LastPositions(log) = {} THEN 0
  ELSE CHOOSE i \in LastPositions(log) : \A j \in LastPositions(log) : j <= i

\* The sum of the rewards of the non-FIRST timesteps at positions from..to.
RECURSIVE RewardSum(_, _, _)
RewardSum(log, from, to) ==
  IF from > to THEN 0
  ELSE (IF IsFirst(log[to]) THEN 0 ELSE log[to].reward)
         + RewardSum(log, from, to - 1)

\* One return per LAST timestep of the log: the rewards of the non-FIRST
\* timesteps after the previous LAST, up to and including this LAST.
RECURSIVE LogReturns(_)
LogReturns(log) ==
  LET l == LatestLast(log) IN
  IF l = 0 THEN <<>>
  ELSE LET before == SubSeq(log, 1, l - 1) IN
       Append(LogReturns(before), RewardSum(log, LatestLast(before) + 1, l))

\* The call that has just returned is step on a FIRST timestep.
JustSteppedFirst == last_call.op = "step" /\ IsFirst(last_call.ts[1])

\* C5: a step on a FIRST timestep made while the in-progress reward list is
\* non-empty or the in-progress step count is not zero (in particular right
\* after another FIRST timestep) raises ValueError and changes no field.
C5_FirstOnOpenEpisodeFails ==
  [][(/\ JustSteppedFirst'
      /\ \/ ~fields_bound
         \/ current_episode_rewards # <<>>
         \/ current_episode_step # 0
         \/ (fed # <<>> /\ IsFirst(fed[Len(fed)])))
       => (/\ last_call'.result = "ValueError"
           /\ trackerFields' = trackerFields
           /\ fed' = fed)]_vars

\* The second of two consecutive FIRST timesteps has just failed.
C5_Witness ==
  /\ JustSteppedFirst
  /\ last_call.result = "ValueError"
  /\ fields_bound
  /\ fed # <<>>
  /\ IsFirst(fed[Len(fed)])
  /\ current_episode_step = 1

\* C6: after reset, one return is recorded per LAST timestep fed by a step
\* call that returned, each the sum of the rewards of the non-FIRST
\* timesteps since the previous LAST (or reset), the LAST's own included;
\* right after a LAST the in-progress list is empty and the in-progress step
\* count is 0; get() reports the number of LAST timesteps as num_episodes.
C6_OneReturnPerLast ==
  fields_bound =>
    /\ Len(episode_returns) = Cardinality(LastPositions(fed))
    /\ episode_returns = LogReturns(fed)
    /\ (fed # <<>> /\ IsLast(fed[Len(fed)])) =>
         (current_episode_rewards = <<>> /\ current_episode_step = 0)
    /\ stats # None =>
         stats[1].num_episodes = Cardinality(LastPositions(fed))

\* Two episodes have completed with different non-zero returns, the first
\* of them FIRST, MID, LAST.
C6_Witness ==
  /\ Len(fed) = 4
  /\ IsFirst(fed[1])
  /\ fed[2].step_type = "MID"
  /\ IsLast(fed[3])
  /\ IsLast(fed[4])
  /\ Len(episode_returns) = 2
  /\ episode_returns[1] = fed[2].reward + fed[3].reward
  /\ episode_returns[1] > 0
  /\ episode_returns[2] > episode_returns[1]

\* C7: a get() that returns changes no field; its episode_return is its
\* mean_episode_return, the mean of the completed returns, if a LAST
\* timestep was fed since reset; otherwise it is its current_episode_return,
\* which is the sum of the rewards of the non-FIRST timesteps fed if any
\* timestep was fed, and NaN if none was.
C7_EpisodeReturnReported ==
  [][(last_call'.op = "get" /\ last_call'.result = "ok") =>
       /\ trackerFields' = trackerFields
       /\ LET d == stats'[1] IN
          IF LastPositions(fed) # {}
            THEN /\ d.episode_return = d.mean_episode_return
                 /\ d.mean_episode_return =
                      Frac(Sum(LogReturns(fed)), Len(LogReturns(fed)))
            ELSE /\ d.episode_return = d.current_episode_return
                 /\ d.current_episode_return =
                      IF fed # <<>>
                        THEN Frac(RewardSum(fed, 1, Len(fed)), 1)
                        ELSE NaN]_vars

\* get() has reported a mean of two completed returns that is no integer
\* while the in-progress return differs from it.
C7_Witness ==
  /\ last_call.op = "get"
  /\ stats # None
  /\ stats[1].num_episodes = 2
  /\ stats[1].episode_return.den = 2
  /\ stats[1].current_episode_return # stats[1].episode_return
  /\ current_episode_rewards # <<>>

(***************************************************************************)
(* Properties of CsvWriter.                                                *)
(***************************************************************************)
\* The positions of the lines this instance appended.
InstancePositions == (prior_len + 1)..Len(file_lines)

\* The positions of the header lines this instance appended.
HeaderPositions == {i \in InstancePositions : file_lines[i].kind = "header"}

\* The data rows among some lines.
RowsOf(lines) == SelectSeq(lines, LAMBDA l : l.kind = "row")

\* C8: once the instance has written a first record, a write (to the file
\* while it is open) of a record whose key set differs from that record's,
\* by a missing or by an extra key, fails with the malformed-row error and
\* appends no row.
C8_KeyMismatchRejected ==
  (/\ csv_last.op = "write"
   /\ ~file_closed
   /\ first_record # None
   /\ KeySet(csv_last.values) # KeySet(first_record[1]))
    => (/\ csv_last.result = ErrFields
        /\ RowsOf(csv_last.appended) = <<>>)

\* C9: a header line is appended only by a write that finds the
\* header-written flag false, as the first line that write appends, and the
\* write leaves the flag true; while set_state has not been called the
\* instance has appended at most one header, it is the first line the
\* instance appended, and there is exactly one once a write has returned;
\* an instance into which header_written = True was restored before its
\* first write (and nothing else since) has appended no header.
C9_HeaderOnce ==
  /\ [](/\ restored = "no" =>
             /\ Cardinality(HeaderPositions) <= 1
             /\ InstancePositions # {} => HeaderPositions = {prior_len + 1}
             /\ first_record # None => Cardinality(HeaderPositions) = 1
        /\ restored = "true_fresh" => HeaderPositions = {})
  /\ [][(\E i \in (Len(file_lines) + 1)..Len(file_lines') :
            file_lines'[i].kind = "header")
          => (/\ csv_last'.op = "write"
              /\ ~header_written
              /\ header_written'
              /\ file_lines'[Len(file_lines) + 1].kind = "header"
              /\ \A i \in (Len(file_lines) + 2)..Len(file_lines') :
                   file_lines'[i].kind = "row")]_vars

\* Without any set_state call the instance has appended a header and then
\* two data rows, in two writes.
C9_Witness ==
  /\ restored = "no"
  /\ Len(file_lines) = prior_len + 3
  /\ file_lines[prior_len + 1].kind = "header"
  /\ file_lines[prior_len + 2].kind = "row"
  /\ file_lines[prior_len + 3].kind = "row"
  /\ csv_last.op = "write"
  /\ Len(csv_last.appended) = 1

\* C10 as stated: after close() every write fails with the closed-file
\* error and leaves the file and the header-written flag as they were; a
\* further close(), explicit or by __del__, does not fail.
C10_WriteAfterCloseIsClosedError ==
  [][/\ (file_closed /\ csv_last'.op = "write") =>
          /\ csv_last'.result = ErrClosed
          /\ file_lines' = file_lines
          /\ header_written' = header_written
     /\ (file_closed /\ csv_last'.op \in {"close", "__del__"}) =>
          (csv_last'.result = "ok" /\ file_closed')]_vars

\* C10 amended: after close() every write fails and leaves the file and
\* the header-written flag as they were; the error is the closed-file error,
\* except for a record with a key that is no column written while the
\* header-written flag is set, which fails with the malformed-row error;
\* a further close(), explicit or by __del__, does not fail.
C10_WriteAfterCloseFails ==
  [][/\ (file_closed /\ csv_last'.op = "write") =>
          /\ csv_last'.result =
               IF header_written
                    /\ WrongFields(csv_last'.values, fieldnames'[1]) # {}
                 THEN ErrFields ELSE ErrClosed
          /\ file_lines' = file_lines
          /\ header_written' = header_written
     /\ (file_closed /\ csv_last'.op \in {"close", "__del__"}) =>
          (csv_last'.result = "ok" /\ file_closed')]_vars

\* A write after close() has failed on a writer that had written a header
\* and a row before.
C10_Witness ==
  /\ file_closed
  /\ csv_last.op = "write"
  /\ csv_last.result = ErrClosed
  /\ header_written
  /\ first_record # None
  /\ Len(file_lines) = prior_len + 2


(***************************************************************************)
(* C11: the column list is fixed to the keys of the first record passed to *)
(* write(), in that record's order: while no write has been called there   *)
(* is no column list, the first write sets it to its record's keys, and no *)
(* later write, get_state or set_state (nor close) changes it.  The header *)
(* line names the columns in that order, and every data row lists its      *)
(* record's values in the column order, whatever key order the record      *)
(* used.                                                                   *)
(***************************************************************************)
C11_ColumnsFixedByFirstRecord ==
  [][/\ fieldnames # None => fieldnames' = fieldnames
     /\ fieldnames = None /\ csv_last'.op = "write"
          => fieldnames' = Some(KeysOf(csv_last'.values))
     /\ fieldnames = None /\ csv_last'.op # "write" => fieldnames' = None
     /\ csv_last'.op = "write" =>
          \A i \in 1..Len(csv_last'.appended) :
            LET line == csv_last'.appended[i]
                names == fieldnames'[1]
                rec == csv_last'.values
            IN /\ Len(line.cells) = Len(names)
               /\ line.kind = "header" => line.cells = names
               /\ line.kind = "row" =>
                    \A c \in 1..Len(names) : \A j \in 1..Len(rec) :
                      rec[j].key = names[c] => line.cells[c] = Str(rec[j].value)
    ]_vars

\* A row was written from a record whose keys come in the reverse of the
\* column order set by an earlier record.
C11_Witness ==
  /\ fieldnames = Some(<<"a", "b">>)
  /\ first_record = Some(<<[key |-> "a", value |-> 1], [key |-> "b", value |-> 2]>>)
  /\ csv_last.op = "write"
  /\ csv_last.values = <<[key |-> "b", value |-> 2], [key |-> "a", value |-> 1]>>
  /\ csv_last.appended = <<[kind |-> "row", cells |-> <<"1", "2">>]>>
  /\ restored # "no"

(***************************************************************************)
(* Properties of LinearSchedule.                                           *)
(***************************************************************************)
\* The latest call evaluated the schedule and returned a value.
Evaluated == sched_last.op = "__call__" /\ sched_last.error = "none"

\* begin_value + (t - begin_t) / decay_steps * (end_value - begin_value)
Interpolated(sch, time) ==
  RAdd(RInt(sch.begin_value),
       RMul(Rat(time - sch.begin_t, sch.decay_steps),
            RInt(sch.end_value - sch.begin_value)))

\* The value the schedule is said to take at `time`.
Piecewise(sch, time, v) ==
  /\ time <= sch.begin_t => v = RInt(sch.begin_value)
  /\ time >= sch.begin_t + sch.decay_steps => v = RInt(sch.end_value)
  /\ time > sch.begin_t /\ time < sch.begin_t + sch.decay_steps
       => v = Interpolated(sch, time)

(***************************************************************************)
(* C12 as stated: for every accepted schedule with a non-zero decay length *)
(* and every integer t, the value is begin_value when t <= begin_t,        *)
(* end_value when t >= begin_t + decay_steps, and the linear interpolation *)
(* in between.                                                             *)
(***************************************************************************)
C12_PiecewiseForNonZeroDecay ==
  Evaluated /\ schedule[1].decay_steps # 0
    => Piecewise(schedule[1], sched_last.args[1], sched_last.value[1])

(***************************************************************************)
(* C12, amended: the piecewise-linear value holds for a positive decay     *)
(* length; for a negative decay length the value is end_value at every t.  *)
(***************************************************************************)
C12_PiecewiseForPositiveDecay ==
  Evaluated =>
    /\ schedule[1].decay_steps > 0
         => Piecewise(schedule[1], sched_last.args[1], sched_last.value[1])
    /\ schedule[1].decay_steps < 0
         => sched_last.value[1] = RInt(schedule[1].end_value)

\* A schedule with distinct end points was evaluated strictly inside its
\* decay interval, where the value is no integer.
C12_Witness ==
  /\ Evaluated
  /\ schedule[1].decay_steps > 1
  /\ schedule[1].begin_value # schedule[1].end_value
  /\ sched_last.args[1] > schedule[1].begin_t
  /\ sched_last.args[1] < schedule[1].begin_t + schedule[1].decay_steps
  /\ sched_last.value[1].den > 1

(***************************************************************************)
(* C13: construction fails with the invalid-configuration error exactly    *)
(* when both end_t and decay_steps are supplied or neither is; with        *)
(* exactly one supplied, the stored decay length is decay_steps if that    *)
(* was given and end_t - begin_t otherwise.                                *)
(***************************************************************************)
C13_ExactlyOneOfEndTAndDecaySteps ==
  sched_last.op = "__init__" =>
    LET begin_t == sched_last.args[3]
        end_t == sched_last.args[4]
        decay_steps == sched_last.args[5]
        both == end_t # None /\ decay_steps # None
        neither == end_t = None /\ decay_steps = None
    IN /\ sched_last.error = "ValueError" <=> (both \/ neither)
       /\ sched_last.error \in {"ValueError", "none"}
       /\ sched_last.error = "ValueError" => schedule = None
       /\ sched_last.error = "none" =>
            /\ schedule # None
            /\ decay_steps # None => schedule[1].decay_steps = decay_steps[1]
            /\ decay_steps = None => schedule[1].decay_steps = end_t[1] - begin_t

\* A construction from end_t alone, with end_t before begin_t, has
\* succeeded.
C13_Witness ==
  /\ sched_last.op = "__init__"
  /\ sched_last.error = "none"
  /\ sched_last.args[4] # None
  /\ sched_last.args[4][1] - sched_last.args[3] < 0
  /\ schedule[1].decay_steps < 0

(***************************************************************************)
(* Properties of EpsilonGreedyActor.                                       *)
(***************************************************************************)
\* The latest call on instance i was a step that selected an action.
Selecting(i) ==
  actor_last[i].op = "step" /\ actor_last[i].out # None /\ ~actor_last[i].error

(***************************************************************************)
(* C14: two instances with the same network parameters, random key and     *)
(* exploration_epsilon, reset and then fed the same preprocessor outputs,  *)
(* return the same action at every step and hold the same key after every  *)
(* step; the action and the next key of a selecting step are a function of *)
(* the key, the parameters, epsilon and the processed observation only.    *)
(***************************************************************************)
C14_SameInputsSameActions ==
  /\ sync \in {"reset", "reset_stepped"} => rng_key["A"] = rng_key["B"]
  /\ sync = "reset_stepped" =>
       /\ actor_last["A"].ret = actor_last["B"].ret
       /\ actor_last["A"].error = actor_last["B"].error
  /\ /\ Selecting("A") /\ Selecting("B")
     /\ actor_last["A"].key = actor_last["B"].key
     /\ actor_last["A"].out = actor_last["B"].out
     /\ network_params["A"] = network_params["B"]
     => /\ actor_last["A"].ret = actor_last["B"].ret
        /\ rng_key["A"] = rng_key["B"]

\* After a common reset both instances, exploring with epsilon 1/2, have
\* selected the same action and hold the same new key.
C14_Witness ==
  /\ sync = "reset_stepped"
  /\ Selecting("A") /\ Selecting("B")
  /\ actor_last["A"].ret = actor_last["B"].ret
  /\ exploration_epsilon = 1
  /\ rng_key["A"] # 0

(***************************************************************************)
(* C15: after B.set_state(A.get_state()), taken at any point of A's run,   *)
(* every later step of B on the same preprocessor output returns the       *)
(* action A's step returns.                                                *)
(***************************************************************************)
C15_RestoredActorRepeatsRun ==
  sync = "restored_stepped" => actor_last["A"].ret = actor_last["B"].ret

(***************************************************************************)
(* C19: a step for which the preprocessor returned nothing returns the     *)
(* action selected by the latest selecting step since the reset (none if   *)
(* there was no such step) and leaves the key, the stored action and the   *)
(* network parameters as they were; reset() clears the stored action.      *)
(***************************************************************************)
C19_NoOutputStepRepeatsAction ==
  [][\A i \in Actors :
       /\ actor_last'[i].op = "step" /\ actor_last'[i].out = None
            => /\ actor_last'[i].ret = selected[i]
               /\ ~actor_last'[i].error
               /\ rng_key'[i] = rng_key[i]
               /\ action'[i] = action[i]
               /\ network_params'[i] = network_params[i]
       /\ actor_last'[i].op = "reset" => action'[i] = None
    ]_vars

\* A no-output step repeated the action selected before it, after the
\* other instance had been reset and had returned no action.
C19_Witness ==
  /\ actor_last["A"].op = "step" /\ actor_last["A"].out = None
  /\ actor_last["A"].ret = Some(1)
  /\ actor_last["B"].op = "step" /\ actor_last["B"].out = None
  /\ actor_last["B"].ret = None
  /\ network_params["B"] # None

(***************************************************************************)
(* Further properties of run_loop.                                         *)
(***************************************************************************)
\* Where agent.reset() stands in the history of an episode.
ResetPosition == IF yield_before_reset THEN 2 ELSE 1

\* Entry i of the history shows a LAST timestep that environment.step
\* reported, or one that the driver passed on after a step (reported or
\* forced by truncation).
ShowsLastAfterStep(i) ==
  /\ trace[i].ts # None
  /\ IsLast(trace[i].ts[1])
  /\ \/ trace[i].op = "env.step"
     \/ \E k \in 1..(i - 1) : trace[k].op = "env.step"

(***************************************************************************)
(* C16: every episode begins with agent.reset() followed by                *)
(* environment.reset(), both before the episode's first agent.step (and    *)
(* environment.step); once a timestep is LAST, reported by                 *)
(* environment.step or forced by truncation, environment.step is not       *)
(* called again in the episode, that is, not before the next episode's     *)
(* environment.reset().                                                    *)
(***************************************************************************)
C16_ResetsFirstAndNoStepAfterLast ==
  /\ \A i \in TraceIdx :
       /\ trace[i].op = "agent.reset" => i = ResetPosition
       /\ trace[i].op = "env.reset" => i = ResetPosition + 1
       /\ trace[i].op \in {"agent.step", "env.step"} =>
            /\ i > ResetPosition + 1
            /\ trace[ResetPosition].op = "agent.reset"
            /\ trace[ResetPosition + 1].op = "env.reset"
  /\ \A i \in TraceIdx : \A j \in TraceIdx :
       i < j /\ ShowsLastAfterStep(i) => trace[j].op # "env.step"
  /\ pc = "env_step" => ~IsLast(Cur) \/ t = 0

\* The next episode has called agent.reset() and is about to call
\* environment.reset(), while the current timestep is still the LAST one
\* that environment.step reported in the episode before.
C16_Witness ==
  /\ pc = "env_reset"
  /\ timestep_t # None
  /\ IsLast(Cur)
  /\ max_steps_per_episode = 0
  /\ trace[Len(trace)].op = "agent.reset"

(***************************************************************************)
(* C18: with max_steps_per_episode = N > 0, for any environment, t never   *)
(* exceeds N and the assertion of line 79 never fails; t is 0 at the       *)
(* resets and the first agent step of every episode; an episode has at     *)
(* most N environment steps and yields at most N + 1 pairs that carry a    *)
(* timestep.                                                               *)
(***************************************************************************)
C18_EpisodeBoundedByMaxSteps ==
  max_steps_per_episode > 0 =>
    /\ pc # "AssertionError"
    /\ t <= max_steps_per_episode
    /\ \A i \in TraceIdx :
         /\ trace[i].t <= max_steps_per_episode
         /\ trace[i].op \in {"agent.reset", "env.reset"} => trace[i].t = 0
         /\ i = ResetPosition + 2 => trace[i].op = "agent.step" /\ trace[i].t = 0
    /\ CountUpTo(Len(trace), LAMBDA e : e.op = "env.step") <= max_steps_per_episode
    /\ CountUpTo(Len(trace), IsPair) <= max_steps_per_episode + 1

\* An episode of an environment that never reported LAST has ended with
\* N environment steps and N + 1 pairs, N being positive and below MaxT.
C18_Witness ==
  /\ max_steps_per_episode > 0
  /\ max_steps_per_episode < MaxT
  /\ pc = "episode"
  /\ t = max_steps_per_episode
  /\ EnvNeverLastSoFar
  /\ CountUpTo(Len(trace), LAMBDA e : e.op = "env.step") = max_steps_per_episode
  /\ CountUpTo(Len(trace), IsPair) = max_steps_per_episode + 1

(***************************************************************************)
(* C20: after reset() and any sequence of step calls, failed ones          *)
(* included, num_steps_since_reset = num_steps_over_episodes +             *)
(* current_episode_step, and num_steps_since_reset is the number of step   *)
(* calls since the reset that did not fail; a step call changes            *)
(* num_steps_over_episodes only if its timestep is LAST.                   *)
(***************************************************************************)
C20_StepCountsAddUp ==
  [][/\ fields_bound' =>
          /\ num_steps_since_reset' =
               num_steps_over_episodes' + current_episode_step'
          /\ num_steps_since_reset' = Len(fed')
     /\ last_call'.op = "step" /\ last_call'.result = "ok"
          => Len(fed') = Len(fed) + 1
     /\ last_call'.op = "step" /\ last_call'.result # "ok"
          => /\ fed' = fed
             /\ num_steps_since_reset' = num_steps_since_reset
     /\ last_call'.op = "step"
          /\ num_steps_over_episodes' # num_steps_over_episodes
          => IsLast(last_call'.ts[1]) /\ last_call'.result = "ok"
    ]_vars

\* After a completed episode of two steps and one step of the next, a
\* FIRST timestep was refused and counted nowhere.
C20_Witness ==
  /\ fields_bound
  /\ last_call.op = "step"
  /\ last_call.result = "ValueError"
  /\ num_steps_over_episodes = 2
  /\ current_episode_step = 1
  /\ num_steps_since_reset = 3
  /\ Len(fed) = 3

(***************************************************************************)
(* C17: for an environment whose reset returns FIRST and whose step        *)
(* returns MID or LAST, generate_statistics on a contiguous slice of       *)
(* run_loop's output (any max_steps_per_episode, either value of           *)
(* yield_before_reset, the slice starting at any yield) never gets the     *)
(* tracker's ValueError or any other error from it: whenever a FIRST       *)
(* timestep is about to be fed, the tracker's in-progress reward list is   *)
(* empty and its in-progress step count is zero.                           *)
(***************************************************************************)
C17_SliceNeverFailsTracker ==
  DmEnvSoFar =>
    /\ gs_pc # "error"
    /\ gs_pc # "idle" => last_call.result = "ok"
    /\ gs_pc = "body" =>
         LET e == trace[Len(trace)] IN
         e.ts # None /\ IsFirst(e.ts[1]) =>
           /\ current_episode_rewards = <<>>
           /\ current_episode_step = 0

\* A slice that began inside an episode has fed the tracker the end of
\* that episode and, after a skipped sentinel, the FIRST timestep of the
\* next one.
C17_Witness ==
  /\ DmEnvSoFar
  /\ yield_before_reset
  /\ gs_pc = "next"
  /\ Len(fed) >= 3
  /\ ~IsFirst(fed[1])
  /\ IsLast(fed[Len(fed) - 1])
  /\ IsFirst(fed[Len(fed)])
  /\ last_call.op = "step"
  /\ last_call.result = "ok"
  /\ current_episode_step = 1
====
